---- MODULE Spec2Model ----
(***************************************************************************)
(* Model of cmd/goproxy/internal/server_cmd.go: the server command of the  *)
(* Go module proxy.                                                        *)
(*                                                                         *)
(*  - runServerCmd: the foreground (lines 107-129), the serve goroutine    *)
(*    (lines 110-117), the signal-scoped stop context (line 107), the      *)
(*    per-request deadline middleware (lines 92-100) and the connections   *)
(*    of the http.Server the command supervises;                           *)
(*  - httpDirFS.Open (lines 136-149) as a function of its input name and   *)
(*    of the platform's path separator.                                    *)
(*                                                                         *)
(* Library behaviour the code relies on (context cancellation, net/http's  *)
(* Server.ListenAndServe / Server.Shutdown / conn.serve, path/filepath) is *)
(* modelled at the call site that uses it.                                 *)
(***************************************************************************)
EXTENDS Integers, Sequences, FiniteSets

\* ------------------------------------------------------------------ bounds
\* connections the listener may accept in one run
MaxConns == 1
\* SIGINT/SIGTERM deliveries in one run
MaxSignals == 1
\* largest timeout value (in abstract ticks) a flag may be set to
MaxTimeout == 1
\* longest name handed to httpDirFS.Open
MaxLen == 4
\* longest request path and path prefix
MaxPath == 3

Conns == 1..MaxConns
Timeouts == 0..MaxTimeout

\* ------------------------------------------------------------ error values
Nil == "nil"
ErrServerClosed == "http.ErrServerClosed"
ErrListen == "listen error"
ErrAccept == "accept error"
ErrClose == "listener close error"
DeadlineExceeded == "context.DeadlineExceeded"

VARIABLES
    \* cfg: the flags that shape the lifecycle (lines 37-51)
    fetchTimeout, shutdownTimeout, tls,
    \* cmd.Context(): "live" or "done"
    cmdCtx,
    \* stopCtx of signal.NotifyContext (line 107)
    stopCtx,        \* "live" or "done"
    stopDoneCount,  \* times stopCtx went from live to done
    stopCause,      \* what made it done: "signal", "parent", "goroutine", ...
    notifying,      \* signal.Notify registration still installed
    signals,        \* SIGINT/SIGTERM delivered so far
    \* the serve goroutine (lines 110-117)
    bg,             \* "spawned", "serving", "returned", "stored", "exited"
    serveCalls,     \* calls of ListenAndServe / ListenAndServeTLS
    serveKind,      \* which of the two was called
    serveResult,    \* what the call returned ("none" while it has not)
    serverError,    \* the shared variable of line 109
    \* the http.Server
    listener,       \* "none", "open", "closed"
    inShutdown,     \* Server.inShutdown
    lnerr,          \* error of closing the listener in Shutdown
    conns,          \* per connection: state, request and its contexts
    \* the foreground (lines 118-129)
    fg,             \* "wait", "check", "shutdown", "done"
    wakeCount,      \* times the receive on stopCtx.Done() completed
    observed,       \* value of serverError read at line 119
    readOrder,      \* that read against the goroutine's store: "unread",
                    \* "ordered" or "race"
    shutdownCtx,    \* timer of line 126: "none", "armed", "fired", "stopped"
    shutdownCalls,  \* calls of server.Shutdown
    shutdownResult, \* what server.Shutdown returned ("none" while it has not)
    result,         \* what runServerCmd returned ("none" while it has not)
    \* httpDirFS.Open
    goos,           \* "windows" (Separator '\\') or "unix" (Separator '/')
    name,           \* the argument of Open
    opened,         \* outcome of the call
    \* the handler chain of lines 88-91
    pathPrefix,     \* cfg.pathPrefix
    urlPath,        \* req.URL.Path of a request
    rawPath,        \* req.URL.RawPath of the request (empty unless escaped)
    served          \* what became of the request

serverVars == <<fetchTimeout, shutdownTimeout, tls, cmdCtx, stopCtx,
                stopDoneCount, stopCause, readOrder, notifying, signals, bg, serveCalls, serveKind,
                serveResult, serverError, listener, inShutdown, lnerr, conns,
                fg, wakeCount, observed, shutdownCtx, shutdownCalls,
                shutdownResult, result>>
fsVars == <<goos, name, opened>>
prefixVars == <<pathPrefix, urlPath, rawPath, served>>
vars == <<serverVars, fsVars, prefixVars>>

cfgVars == <<fetchTimeout, shutdownTimeout, tls>>
bgVars == <<bg, serveCalls, serveKind, serveResult, serverError>>
fgVars == <<fg, wakeCount, observed, readOrder, shutdownCtx, shutdownCalls,
            shutdownResult, result>>
stopVars == <<stopCtx, stopDoneCount, stopCause, notifying, signals>>
srvVars == <<listener, inShutdown, lnerr>>

\* --------------------------------------------------------------- contexts
\* A connection that has not been accepted, or carries no request.
NoRequest(st) ==
    [st |-> st, mw |-> "none", hctx |-> "none", reqCtx |-> "none",
     ctx |-> "none", timer |-> "none", deadline |-> 0, cancelCalled |-> FALSE]

\* Cancellation of a request's context reaches the context derived from it
\* at line 95 (context.WithTimeout registers the child with its parent) and
\* stops the child's timer.
CancelRequestCtx(c) ==
    [c EXCEPT !.reqCtx = IF @ = "live" THEN "done" ELSE @,
              !.ctx = IF @ = "live" THEN "done" ELSE @,
              !.timer = IF @ = "armed" THEN "stopped" ELSE @]

\* cancel() of line 97: cancels the derived context and stops its timer.
CancelDerivedCtx(c) ==
    [c EXCEPT !.ctx = IF @ = "live" THEN "done" ELSE @,
              !.timer = IF @ = "armed" THEN "stopped" ELSE @,
              !.cancelCalled = TRUE]

\* A cancel that closed Done() on every call would count each of them.
DoubleStopCount(state, n) == n + 1
\* Cancelling stopCtx is idempotent: only the first cancel closes Done().
StopCount(state, n) == IF state = "live" THEN n + 1 ELSE n

\* The cancel of stopCtx, called for cause; the first call closes Done().
CancelStopCtx(cause) ==
    /\ stopCtx' = "done"
    /\ stopDoneCount' = StopCount(stopCtx, stopDoneCount)
    /\ stopCause' = IF stopCtx = "live" THEN cause ELSE stopCause

\* stop() of signal.NotifyContext: cancel stopCtx and signal.Stop.
Stop(cause) ==
    /\ CancelStopCtx(cause)
    /\ notifying' = FALSE
    /\ UNCHANGED signals

\* ------------------------------------------------------------------- Init
ServerInit ==
    /\ fetchTimeout \in Timeouts
    /\ shutdownTimeout \in Timeouts
    /\ tls \in BOOLEAN
    /\ cmdCtx = "live"
    /\ stopCtx = "live"
    /\ stopDoneCount = 0
    /\ stopCause = "none"
    /\ notifying = TRUE
    /\ signals = 0
    /\ bg = "spawned"
    /\ serveCalls = 0
    /\ serveKind = "none"
    /\ serveResult = "none"
    /\ serverError = Nil
    /\ listener = "none"
    /\ inShutdown = FALSE
    /\ lnerr = Nil
    /\ conns = [c \in Conns |-> NoRequest("free")]
    /\ fg = "wait"
    /\ wakeCount = 0
    /\ observed = "unread"
    /\ readOrder = "unread"
    /\ shutdownCtx = "none"
    /\ shutdownCalls = 0
    /\ shutdownResult = "none"
    /\ result = "none"

FsIdle ==
    /\ goos = "unix"
    /\ name = <<>>
    /\ opened = [kind |-> "uncalled", path |-> <<>>, err |-> Nil]

\* No request has been put to the handler chain.
Unserved == [kind |-> "unserved", path |-> <<>>, raw |-> <<>>]

PrefixIdle ==
    /\ pathPrefix = <<>>
    /\ urlPath = <<>>
    /\ rawPath = <<>>
    /\ served = Unserved

Init == ServerInit /\ FsIdle /\ PrefixIdle

\* ------------------------------------------------------------ environment
\* A SIGINT or SIGTERM arrives while the NotifyContext registration is
\* installed: the first one cancels stopCtx (line 107).
Signal ==
    /\ notifying
    /\ signals < MaxSignals
    /\ signals' = signals + 1
    /\ CancelStopCtx("signal")
    /\ UNCHANGED <<notifying, cfgVars, cmdCtx, bgVars, srvVars, conns, fgVars,
                   fsVars, prefixVars>>

\* The command's context is cancelled by the caller of the command.  stopCtx
\* (line 107) and every request context (BaseContext, line 105) derive from
\* it.
ParentCancel ==
    /\ cmdCtx = "live"
    /\ cmdCtx' = "done"
    /\ CancelStopCtx("parent")
    /\ conns' = [c \in Conns |-> CancelRequestCtx(conns[c])]
    /\ UNCHANGED <<notifying, signals, cfgVars, bgVars, srvVars, fgVars,
                   fsVars, prefixVars>>

\* ------------------------------------------------- serve goroutine, 110-117
\* Lines 111-115: which serve call the goroutine makes.
ServeKind(useTLS) == IF useTLS THEN "ListenAndServeTLS" ELSE "ListenAndServe"

\* A serve call that did not look at the server's shutdown state on entry.
NeverShuttingDown == FALSE
\* ListenAndServe[TLS] on entry: has server.Shutdown been called?
ShuttingDown == inShutdown

\* A serve loop that went on blocking in Accept after server.Shutdown.
AcceptBlocksForever == FALSE
\* The serve loop's Accept fails once server.Shutdown closed the listener.
AcceptFailsOnShutdown == inShutdown

\* A goroutine that served again after its serve call returned.
RestartAfterStop == "spawned"
\* Line 117: the goroutine ends after stop(); it serves once.
AfterStop == "exited"

\* The goroutine enters ListenAndServe[TLS].  A server already shut down
\* returns ErrServerClosed at once; otherwise listening succeeds or fails.
BgEnter ==
    /\ bg = "spawned"
    /\ serveCalls' = serveCalls + 1
    /\ serveKind' = ServeKind(tls)
    /\ \/ /\ ShuttingDown
          /\ bg' = "returned"
          /\ serveResult' = ErrServerClosed
          /\ UNCHANGED listener
       \/ /\ ~ShuttingDown
          /\ bg' = "returned"
          /\ serveResult' = ErrListen
          /\ UNCHANGED listener
       \/ /\ ~ShuttingDown
          /\ bg' = "serving"
          /\ listener' = "open"
          /\ UNCHANGED serveResult
    /\ UNCHANGED <<serverError, inShutdown, lnerr, cfgVars, cmdCtx, stopVars,
                   conns, fgVars, fsVars, prefixVars>>

\* Accept fails with a permanent error: Serve closes the listener and returns.
BgAcceptError ==
    /\ bg = "serving"
    /\ ~inShutdown
    /\ bg' = "returned"
    /\ serveResult' = ErrAccept
    /\ listener' = "closed"
    /\ UNCHANGED <<serveCalls, serveKind, serverError, inShutdown, lnerr,
                   cfgVars, cmdCtx, stopVars, conns, fgVars, fsVars, prefixVars>>

\* Shutdown closed the listener: Serve returns ErrServerClosed.
BgServeClosed ==
    /\ bg = "serving"
    /\ AcceptFailsOnShutdown
    /\ bg' = "returned"
    /\ serveResult' = ErrServerClosed
    /\ UNCHANGED <<serveCalls, serveKind, serverError, srvVars, cfgVars,
                   cmdCtx, stopVars, conns, fgVars, fsVars, prefixVars>>

\* The assignment to serverError of lines 112/114.
BgStore ==
    /\ bg = "returned"
    /\ serverError' = serveResult
    /\ bg' = "stored"
    /\ UNCHANGED <<serveCalls, serveKind, serveResult, srvVars, cfgVars,
                   cmdCtx, stopVars, conns, fgVars, fsVars, prefixVars>>

\* stop() of line 116.
BgStop ==
    /\ bg = "stored"
    /\ Stop("goroutine")
    /\ bg' = AfterStop
    /\ UNCHANGED <<serveCalls, serveKind, serveResult, serverError, srvVars,
                   cfgVars, cmdCtx, conns, fgVars, fsVars, prefixVars>>

\* ------------------------------------- deadline middleware, lines 92-100
\* The test of line 92 written as >= 0 would wrap the handler for every value.
ArmsDeadlineAlways(t) == t >= 0
\* Line 92: the middleware is installed only for a positive fetch timeout.
ArmsDeadline(t) == t > 0

\* Lines 94-96: the request as the downstream handler receives it.  parent
\* is the state of req.Context().  A context derived from a parent that is
\* already done is born done and arms no timer.
DispatchRequest(parent, t) ==
    IF ArmsDeadline(t)
    THEN [st |-> "active", mw |-> "running", hctx |-> "derived",
          reqCtx |-> parent, ctx |-> parent,
          timer |-> IF parent = "live" THEN "armed" ELSE "none",
          deadline |-> t, cancelCalled |-> FALSE]
    ELSE [st |-> "active", mw |-> "running", hctx |-> "original",
          reqCtx |-> parent, ctx |-> "none", timer |-> "none",
          deadline |-> 0, cancelCalled |-> FALSE]

\* A server whose requests derived from the signal-scoped stopCtx.
BaseContextStopCtx == stopCtx
\* Line 105: BaseContext is the command's context.
BaseContext == cmdCtx

\* The listener accepts a connection and its first request is dispatched;
\* the request's context derives from BaseContext (line 105).
Accept(c) ==
    /\ bg = "serving"
    /\ listener = "open"
    /\ conns[c].st = "free"
    /\ conns' = [conns EXCEPT ![c] = DispatchRequest(BaseContext, fetchTimeout)]
    /\ UNCHANGED <<cfgVars, cmdCtx, stopVars, bgVars, srvVars, fgVars, fsVars, prefixVars>>

\* A kept-alive connection carries its next request.
Request(c) ==
    /\ conns[c].st = "idle"
    /\ conns' = [conns EXCEPT ![c] = DispatchRequest(BaseContext, fetchTimeout)]
    /\ UNCHANGED <<cfgVars, cmdCtx, stopVars, bgVars, srvVars, fgVars, fsVars, prefixVars>>

\* A middleware that answered for the handler on expiry, as
\* http.TimeoutHandler does, would end the invocation there.
TimeoutHandlerExpiry(c) ==
    [c EXCEPT !.timer = "fired", !.ctx = "done", !.mw = "returned"]
\* The expiry of the timeout of line 95 only marks the derived context done.
Expiry(c) == [c EXCEPT !.timer = "fired", !.ctx = "done"]

\* The timer of context.WithTimeout (line 95) fires.
DeadlineFire(c) ==
    /\ conns[c].timer = "armed"
    /\ conns' = [conns EXCEPT ![c] = Expiry(@)]
    /\ UNCHANGED <<cfgVars, cmdCtx, stopVars, bgVars, srvVars, fgVars, fsVars, prefixVars>>

\* The peer closes the connection while the handler runs: the server cancels
\* the request's context; the handler keeps running.
ClientClose(c) ==
    /\ conns[c].mw = "running"
    /\ conns[c].reqCtx = "live"
    /\ conns' = [conns EXCEPT ![c] = CancelRequestCtx(@)]
    /\ UNCHANGED <<cfgVars, cmdCtx, stopVars, bgVars, srvVars, fgVars, fsVars, prefixVars>>

\* Lines 96-98: h.ServeHTTP returns, cancel() runs, the middleware returns.
\* Without the middleware (fetchTimeout == 0) the handler just returns.
ReleaseOnReturn(c) ==
    IF c.hctx = "derived" THEN CancelDerivedCtx(c) ELSE c

HandlerReturn(c) ==
    /\ conns[c].mw = "running"
    /\ conns' = [conns EXCEPT ![c] = [ReleaseOnReturn(@) EXCEPT !.mw = "returned"]]
    /\ UNCHANGED <<cfgVars, cmdCtx, stopVars, bgVars, srvVars, fgVars, fsVars, prefixVars>>

\* Line 96: h.ServeHTTP panics.  cancel() of line 97 is not deferred, so the
\* panic unwinds through the middleware without running it.
HandlerPanic(c) ==
    /\ conns[c].mw = "running"
    /\ conns' = [conns EXCEPT ![c].mw = "panicked"]
    /\ UNCHANGED <<cfgVars, cmdCtx, stopVars, bgVars, srvVars, fgVars, fsVars, prefixVars>>

\* The server finishes the request: it cancels the request's context and
\* keeps the connection alive unless the server is shutting down.
ServerFinish(c) ==
    /\ conns[c].mw = "returned"
    /\ conns' = [conns EXCEPT ![c] =
                    NoRequest(IF inShutdown THEN "closed" ELSE "idle")]
    /\ UNCHANGED <<cfgVars, cmdCtx, stopVars, bgVars, srvVars, fgVars, fsVars, prefixVars>>

\* The server recovers the handler's panic: its deferred calls cancel the
\* connection's context (and with it the request's) and close the connection.
ServerRecover(c) ==
    /\ conns[c].mw = "panicked"
    /\ conns' = [conns EXCEPT ![c] = NoRequest("closed")]
    /\ UNCHANGED <<cfgVars, cmdCtx, stopVars, bgVars, srvVars, fgVars, fsVars, prefixVars>>

\* ----------------------------------------------- foreground, lines 118-129
\* A foreground that did not wait at line 118.
StopCtxIgnored == TRUE
\* Line 118: the receive on stopCtx.Done() completes once stopCtx is done.
StopCtxDone == stopCtx = "done"

FgWake ==
    /\ fg = "wait"
    /\ StopCtxDone
    /\ fg' = "check"
    /\ wakeCount' = wakeCount + 1
    /\ UNCHANGED <<observed, readOrder, shutdownCtx, shutdownCalls,
                   shutdownResult, result, cfgVars, cmdCtx, stopVars, bgVars, srvVars, conns,
                   fsVars, prefixVars>>

\* Line 119 without its early return: no serve error ends the command.
NeverFatal(err) == FALSE
\* Line 119: a serve error other than ErrServerClosed ends the command.
IsFatal(err) == err # Nil /\ err # ErrServerClosed

\* Lines 123-128 without the timeout: context.Background() as it is.
NeverArmed(t) == "none"
\* Lines 123-128 without the test of line 124: a timeout of zero is armed too.
AlwaysArmed(t) == "armed"
\* Lines 123-128: the context handed to server.Shutdown.
NewShutdownCtx(t) == IF t > 0 THEN "armed" ELSE "none"

\* server.Shutdown closes the connections that are idle.
CloseIdleConns(cs) ==
    [c \in DOMAIN cs |-> IF cs[c].st = "idle" THEN NoRequest("closed") ELSE cs[c]]

\* The read of serverError at line 119 against the goroutine's store.  The
\* two are ordered when the goroutine's stop() is what closed stopCtx.Done()
\* (store, stop(), receive, read), and when the goroutine is still before or
\* in its serve call, which then returns because of the server.Shutdown that
\* follows the read.  Otherwise nothing orders them: a data race.
ReadOrder ==
    IF stopCause = "goroutine" \/ bg \in {"spawned", "serving"}
    THEN "ordered"
    ELSE "race"

\* What a read of serverError at line 119 may return: the variable's value,
\* or in a race with a store already made the value from before it.
ReadableValues ==
    IF ReadOrder = "race" THEN {Nil, serverError} ELSE {serverError}

\* Lines 119-129 up to the call of server.Shutdown: read serverError; return
\* it when fatal (the deferred stop() runs); otherwise build shutdownCtx and
\* call server.Shutdown, which marks the server as shutting down, closes the
\* listener (its close may fail) and the idle connections.
FgCheck ==
    /\ fg = "check"
    /\ observed' \in ReadableValues
    /\ readOrder' = ReadOrder
    /\ IF IsFatal(observed')
       THEN /\ result' = observed'
            /\ fg' = "done"
            /\ Stop("deferred")
            /\ UNCHANGED <<shutdownCtx, shutdownCalls, srvVars, conns>>
       ELSE /\ shutdownCtx' = NewShutdownCtx(shutdownTimeout)
            /\ shutdownCalls' = shutdownCalls + 1
            /\ inShutdown' = TRUE
            /\ IF listener = "open"
               THEN /\ listener' = "closed"
                    /\ lnerr' \in {Nil, ErrClose}
               ELSE UNCHANGED <<listener, lnerr>>
            /\ conns' = CloseIdleConns(conns)
            /\ fg' = "shutdown"
            /\ UNCHANGED <<result, stopVars>>
    /\ UNCHANGED <<wakeCount, shutdownResult, cfgVars, cmdCtx, bgVars, fsVars, prefixVars>>

\* The timer of shutdownCtx (line 126) fires while server.Shutdown waits.
GraceExpire ==
    /\ fg = "shutdown"
    /\ shutdownCtx = "armed"
    /\ shutdownCtx' = "fired"
    /\ UNCHANGED <<fg, wakeCount, observed, readOrder, shutdownCalls,
                   shutdownResult, result, cfgVars, cmdCtx, stopVars, bgVars, srvVars, conns,
                   fsVars, prefixVars>>

\* No connection is serving a request or idle: Shutdown has nothing to wait for.
Quiescent(cs) == \A c \in DOMAIN cs : cs[c].st \notin {"active", "idle"}

\* A shutdown that fell back to server.Close on expiry would close the
\* connections still serving a request.
ForceCloseConns(cs, expired) ==
    IF expired
    THEN [c \in DOMAIN cs |->
            IF cs[c].st = "active" THEN NoRequest("closed") ELSE cs[c]]
    ELSE cs
\* What server.Shutdown leaves of the connections when it returns: it closes
\* none that is still serving a request, also when its context expired.
ShutdownConns(cs, expired) == cs

\* A return that preferred an earlier serve error to the shutdown error.
FirstErrorWins(shutdownErr, serveErr) ==
    IF serveErr # Nil /\ serveErr # ErrServerClosed THEN serveErr ELSE shutdownErr
\* Line 129: runServerCmd returns what server.Shutdown returned.
ReturnValue(shutdownErr, serveErr) == shutdownErr

\* server.Shutdown returns: the listener's close error once no connection is
\* left to wait for, or the context's error once shutdownCtx is done.  The
\* deferred cancel() (line 127) and stop() (line 108) run.
FgShutdownReturn ==
    /\ fg = "shutdown"
    /\ \E expired \in BOOLEAN :
          /\ IF expired THEN shutdownCtx = "fired" ELSE Quiescent(conns)
          /\ shutdownResult' = IF expired THEN DeadlineExceeded ELSE lnerr
          /\ conns' = ShutdownConns(conns, expired)
    /\ result' = ReturnValue(shutdownResult', serverError)
    /\ shutdownCtx' = IF shutdownCtx = "armed" THEN "stopped" ELSE shutdownCtx
    /\ fg' = "done"
    /\ Stop("deferred")
    /\ UNCHANGED <<wakeCount, observed, readOrder, shutdownCalls, cfgVars, cmdCtx,
                   bgVars, srvVars, fsVars, prefixVars>>

\* ------------------------------------------------------------------- Next
Next ==
    \/ Signal
    \/ ParentCancel
    \/ BgEnter
    \/ BgAcceptError
    \/ BgServeClosed
    \/ BgStore
    \/ BgStop
    \/ \E c \in Conns : Accept(c)
    \/ \E c \in Conns : Request(c)
    \/ \E c \in Conns : DeadlineFire(c)
    \/ \E c \in Conns : ClientClose(c)
    \/ \E c \in Conns : HandlerReturn(c)
    \/ \E c \in Conns : HandlerPanic(c)
    \/ \E c \in Conns : ServerFinish(c)
    \/ \E c \in Conns : ServerRecover(c)
    \/ FgWake
    \/ FgCheck
    \/ GraceExpire
    \/ FgShutdownReturn

Spec == Init /\ [][Next]_vars

\* The foreground is a running goroutine and the runtime fires an armed timer:
\* each of their steps is taken once it stays enabled.  Nothing makes a
\* handler return, a signal arrive or the listener fail.
FairSpec ==
    /\ Spec
    /\ WF_vars(FgWake)
    /\ WF_vars(FgCheck)
    /\ WF_vars(GraceExpire)
    /\ WF_vars(FgShutdownReturn)

\* The serve goroutine is a running goroutine too: its steps are taken once
\* they stay enabled.
GoroutineFairSpec ==
    /\ FairSpec
    /\ WF_vars(BgEnter)
    /\ WF_vars(BgServeClosed)
    /\ WF_vars(BgStore)
    /\ WF_vars(BgStop)

\* ------------------------------------------- httpDirFS.Open, lines 136-149
\* The characters names are built from: both separators, a drive letter and
\* the colon.
Chars == {"/", "\\", "C", ":"}

Names == UNION {[1..n -> Chars] : n \in 0..MaxLen}

\* filepath.Separator of the platform (line 138).
Separator(os) == IF os = "windows" THEN "\\" ELSE "/"

\* filepath.FromSlash (line 137): every '/' becomes the separator.
FromSlash(os, s) ==
    [i \in 1..Len(s) |-> IF s[i] = "/" THEN Separator(os) ELSE s[i]]

\* os.IsPathSeparator: Windows takes both '\\' and '/', Unix only '/'.
IsPathSeparator(os, ch) ==
    IF os = "windows" THEN ch \in {"\\", "/"} ELSE ch = "/"

\* strings.HasPrefix (line 141).
HasPrefix(s, prefix) ==
    /\ Len(s) >= Len(prefix)
    /\ SubSeq(s, 1, Len(prefix)) = prefix

\* uncLen of path/filepath: the end of \\host\share, counted from prefixLen.
RECURSIVE uncScan(_, _, _, _)
uncScan(os, s, i, count) ==
    IF i > Len(s) THEN Len(s)
    ELSE IF IsPathSeparator(os, s[i])
         THEN IF count + 1 = 2 THEN i - 1 ELSE uncScan(os, s, i + 1, count + 1)
         ELSE uncScan(os, s, i + 1, count)

uncLen(os, s, prefixLen) == uncScan(os, s, prefixLen + 1, 0)

\* volumeNameLen of path/filepath (used by lines 140 and 145): a drive
\* ("C:") or a UNC volume on Windows, nothing on Unix.  The device prefixes
\* (\\.\ and \\?\) need characters that Chars leaves out.
volumeNameLen(os, s) ==
    IF os # "windows" THEN 0
    ELSE IF Len(s) >= 2 /\ s[2] = ":" THEN 2
    ELSE IF Len(s) = 0 \/ ~IsPathSeparator(os, s[1]) THEN 0
    ELSE IF Len(s) >= 2 /\ IsPathSeparator(os, s[2]) THEN uncLen(os, s, 2)
    ELSE 0

\* filepath.VolumeName (line 140).
VolumeName(os, s) == SubSeq(s, 1, volumeNameLen(os, s))

\* filepath.IsAbs (line 145).
IsAbs(os, s) ==
    IF os # "windows" THEN HasPrefix(s, <<"/">>)
    ELSE LET l == volumeNameLen(os, s)
         IN  IF l = 0 THEN FALSE
             ELSE IF IsPathSeparator(os, s[1]) /\ IsPathSeparator(os, s[2]) THEN TRUE
             ELSE IF Len(s) = l THEN FALSE
             ELSE IsPathSeparator(os, s[l + 1])

\* Line 141: the volume names the drive-letter branch rejects.
RejectedVolume(volumeName) ==
    volumeName = <<>> \/ HasPrefix(volumeName, <<"\\", "\\">>)

\* Lines 137-148 up to the call of os.Open: the path os.Open is called with,
\* the error returned instead, or the panic of name[1:] on an empty name
\* (slice bounds out of range).
Resolve(os, n) ==
    LET conv == FromSlash(os, n)
    IN  IF Separator(os) = "\\"
        THEN IF Len(conv) = 0
             THEN [kind |-> "panic", path |-> <<>>, err |-> "slice bounds out of range"]
             ELSE LET rest == SubSeq(conv, 2, Len(conv))
                  IN  IF RejectedVolume(VolumeName(os, rest))
                      THEN [kind |-> "invalid", path |-> <<>>,
                            err |-> "file URL missing drive letter"]
                      ELSE IF ~IsAbs(os, rest)
                           THEN [kind |-> "invalid", path |-> <<>>,
                                 err |-> "path is not absolute"]
                           ELSE [kind |-> "os.Open", path |-> rest, err |-> Nil]
        ELSE IF ~IsAbs(os, conv)
             THEN [kind |-> "invalid", path |-> <<>>, err |-> "path is not absolute"]
             ELSE [kind |-> "os.Open", path |-> conv, err |-> Nil]

\* Open is called once with name; os.Open (line 148) finds the file or fails
\* with a file-system error.
Open ==
    /\ opened.kind = "uncalled"
    /\ LET r == Resolve(goos, name)
       IN  IF r.kind = "os.Open"
           THEN \E found \in BOOLEAN :
                    opened' = IF found THEN [r EXCEPT !.kind = "file"]
                              ELSE [kind |-> "oserror", path |-> r.path,
                                    err |-> "file does not exist"]
           ELSE opened' = r
    /\ UNCHANGED <<goos, name, serverVars, prefixVars>>

\* A server command that is left alone while Open is exercised.
ServerIdle ==
    /\ ServerInit
    /\ fetchTimeout = 0
    /\ shutdownTimeout = 0
    /\ tls = FALSE

FsInit ==
    /\ ServerIdle
    /\ PrefixIdle
    /\ goos \in {"windows", "unix"}
    /\ name \in Names
    /\ opened = [kind |-> "uncalled", path |-> <<>>, err |-> Nil]

FsNext == Open

FsSpec == FsInit /\ [][FsNext]_vars

\* ------------------------------------------ handler chain, lines 88-91
\* The characters request paths and prefixes are built from.
PathChars == {"/", "p"}

Paths == UNION {[1..n -> PathChars] : n \in 0..MaxPath}

\* The paths of requests a server receives: they begin with a slash.
RequestPaths == {p \in Paths : Len(p) >= 1 /\ p[1] = "/"}

\* strings.TrimPrefix, as http.StripPrefix uses it.
TrimPrefix(s, prefix) ==
    IF HasPrefix(s, prefix) THEN SubSeq(s, Len(prefix) + 1, Len(s)) ELSE s

\* The request as g.ServeHTTP receives it.
Handled(path, raw) == [kind |-> "handler", path |-> path, raw |-> raw]

\* http.NotFound: a 404 answer, the wrapped handler is not called.
NotFound == [kind |-> "404", path |-> <<>>, raw |-> <<>>]

\* A prefix stripper that handed requests without the prefix on, unmodified.
PassWithoutPrefix(prefix, path, raw) ==
    IF HasPrefix(path, prefix)
    THEN Handled(TrimPrefix(path, prefix), TrimPrefix(raw, prefix))
    ELSE Handled(path, raw)
\* http.StripPrefix (line 90) for a non-empty prefix: the prefix is trimmed
\* from URL.Path and URL.RawPath; a request whose Path (or whose RawPath, when
\* set) lacks the prefix is answered by http.NotFound.
StripPrefix(prefix, path, raw) ==
    LET p == TrimPrefix(path, prefix)
        rp == TrimPrefix(raw, prefix)
    IN  IF Len(p) < Len(path) /\ (raw = <<>> \/ Len(rp) < Len(raw))
        THEN Handled(p, rp)
        ELSE NotFound

\* Lines 88-91: the handler is g itself, or g behind http.StripPrefix when
\* cfg.pathPrefix is not empty.
Handler(prefix, path, raw) ==
    IF prefix # <<>> THEN StripPrefix(prefix, path, raw) ELSE Handled(path, raw)

\* One request is put to the handler chain.
ServeRequest ==
    /\ served.kind = "unserved"
    /\ served' = Handler(pathPrefix, urlPath, rawPath)
    /\ UNCHANGED <<pathPrefix, urlPath, rawPath, serverVars, fsVars>>

PrefixInit ==
    /\ ServerIdle
    /\ FsIdle
    /\ pathPrefix \in Paths
    /\ urlPath \in RequestPaths
    /\ rawPath \in RequestPaths \cup {<<>>}
    /\ served = Unserved

PrefixNext == ServeRequest

PrefixSpec == PrefixInit /\ [][PrefixNext]_vars

\* ================================================================ claims
Returned == fg = "done"
ServeLoopReturned == bg \in {"returned", "stored", "exited"}
FatalErrors == {ErrListen, ErrAccept}

\* C1: when ListenAndServe[TLS] returns an error other than ErrServerClosed,
\* that error is what runServerCmd returns.  The code reads serverError at
\* line 119 without waiting for the goroutine's store.
C1_ServeErrorIsResult ==
    (Returned /\ serveResult \in FatalErrors) => result = serveResult

\* C2 (as claimed): server.Shutdown is initiated exactly once before
\* runServerCmd returns, whatever the trigger was.
C2_ShutdownUnconditional ==
    Returned => shutdownCalls = 1

\* C2 (amended): server.Shutdown is initiated at most once; a run that read
\* a serve error other than ErrServerClosed at line 119 returns that error
\* without initiating it, every other run initiates it exactly once before
\* it returns.
C2_ShutdownUnlessFatal ==
    /\ shutdownCalls <= 1
    /\ Returned =>
          IF observed \in FatalErrors
          THEN shutdownCalls = 0 /\ result = observed
          ELSE shutdownCalls = 1

\* C2: the serve loop failed and the run ended without server.Shutdown.
C2_Witness ==
    Returned /\ observed = ErrAccept /\ shutdownCalls = 0 /\ result = ErrAccept

\* C3: stopCtx becomes done exactly once, the foreground passes the wait on
\* stopCtx.Done() once and server.Shutdown is invoked at most once, also when
\* a signal and the serve loop's return both occur.
C3_ShutdownInitiationOnce ==
    /\ stopDoneCount <= 1
    /\ wakeCount <= 1
    /\ shutdownCalls <= 1
    /\ (stopCtx = "done") = (stopDoneCount = 1)
    /\ fg # "wait" => stopDoneCount = 1 /\ wakeCount = 1

\* C3: a signal was delivered and the goroutine called stop() in the same run.
C3_Witness ==
    Returned /\ signals > 0 /\ bg = "exited" /\ shutdownCalls = 1

\* C4 (as claimed): shutdown is initiated only after a signal was delivered
\* or the serve loop returned.
C4_OnlySignalOrServeReturn ==
    shutdownCalls > 0 => (signals > 0 \/ ServeLoopReturned)

\* C4 (amended): shutdown is initiated only after a signal was delivered, the
\* serve loop returned, or the command's context was cancelled (stopCtx
\* derives from cmd.Context(), line 107).
C4_OnlySignalServeReturnOrParent ==
    (fg # "wait" \/ shutdownCalls > 0) =>
        (signals > 0 \/ ServeLoopReturned \/ cmdCtx = "done")

\* C4: shutdown initiated by the cancellation of the command's context alone.
C4_Witness ==
    shutdownCalls > 0 /\ cmdCtx = "done" /\ signals = 0 /\ serveResult = "none"

InFlight(c) == conns[c].st = "active"
HandlerRunning(c) == conns[c].mw = "running"
GraceExceeded == Returned /\ shutdownResult = DeadlineExceeded

\* C5 (as claimed): after runServerCmd returns from a shutdown whose grace
\* period elapsed, no accepted connection is still open and no handler is
\* still running.
C5_ForcedCloseAfterGrace ==
    GraceExceeded => \A c \in Conns : ~InFlight(c) /\ ~HandlerRunning(c)

\* C5 (amended): when the grace period elapses, runServerCmd returns
\* context.DeadlineExceeded with the listener and the idle connections
\* closed, and server.Shutdown's return closes no connection that is still
\* serving a request: each stays open until its handler ends.
C5_GraceExpiryLeavesInFlight ==
    /\ [](GraceExceeded =>
            /\ result = DeadlineExceeded
            /\ listener # "open"
            /\ \A c \in Conns : conns[c].st # "idle")
    /\ [][(fg = "shutdown" /\ fg' = "done") =>
            \A c \in Conns : InFlight(c) => conns'[c] = conns[c]]_vars

\* C5: the run returned on the grace timer with a handler still running.
C5_Witness ==
    GraceExceeded /\ \E c \in Conns : InFlight(c) /\ HandlerRunning(c)

\* C6: with shutdownTimeout > 0, once the trigger has fired runServerCmd
\* returns: the expired grace timer alone lets server.Shutdown return, and
\* under fairness of the foreground and of the timer it does, even if a
\* handler never returns.
C6_BoundedShutdownLatency ==
    /\ [](fg = "shutdown" /\ shutdownCtx = "fired" => ENABLED FgShutdownReturn)
    /\ (shutdownTimeout > 0 /\ stopCtx = "done") ~> Returned

\* C6: the run returned on the grace timer while a handler was still running.
C6_Witness ==
    /\ Returned
    /\ shutdownTimeout > 0
    /\ shutdownCtx = "fired"
    /\ \E c \in Conns : HandlerRunning(c)

\* C7: a non-nil error of server.Shutdown is what runServerCmd returns, also
\* in a run whose serve loop ended with an error other than ErrServerClosed.
C7_ShutdownErrorIsResult ==
    (Returned /\ shutdownResult \notin {"none", Nil}) => result = shutdownResult

\* C7: server.Shutdown failed in a run whose serve loop failed too, and the
\* goroutine has stored the serve error by the time the run returns.
C7_Witness ==
    /\ Returned
    /\ shutdownResult = DeadlineExceeded
    /\ serverError \in FatalErrors
    /\ result = DeadlineExceeded

\* C8: a request reaches the downstream handler with a deadline if and only
\* if fetchTimeout > 0: then its context is derived from the request's, with
\* a timeout of fetchTimeout, and is done once the timer fired or the
\* request's context was cancelled; with fetchTimeout == 0 it is the original
\* context and no timer is ever armed.
C8_DeadlineIffFetchTimeout ==
    \A c \in Conns :
        /\ fetchTimeout = 0 =>
              conns[c].timer = "none" /\ conns[c].hctx # "derived"
        /\ HandlerRunning(c) =>
              IF fetchTimeout > 0
              THEN /\ conns[c].hctx = "derived"
                   /\ conns[c].deadline = fetchTimeout
                   /\ conns[c].ctx \in {"live", "done"}
                   /\ conns[c].ctx = "live" =>
                         conns[c].timer = "armed" /\ conns[c].reqCtx = "live"
                   /\ (conns[c].timer = "fired" \/ conns[c].reqCtx = "done") =>
                         conns[c].ctx = "done"
              ELSE /\ conns[c].hctx = "original"
                   /\ conns[c].ctx = "none"
                   /\ conns[c].deadline = 0

\* C8: a handler is running under a derived context whose timeout elapsed.
C8_Witness ==
    \E c \in Conns :
        /\ HandlerRunning(c)
        /\ fetchTimeout > 0
        /\ conns[c].timer = "fired"
        /\ conns[c].ctx = "done"

\* C9: with fetchTimeout > 0 the derived context's cancel function has been
\* called whenever the handler invocation has ended, by return or by panic,
\* and no ended invocation leaves the context un-cancelled with its timer
\* armed.  The code calls cancel() only on the return path (line 97).
C9_ReleasedOnEveryExit ==
    \A c \in Conns :
        (conns[c].hctx = "derived" /\ conns[c].mw \in {"returned", "panicked"}) =>
            /\ conns[c].cancelCalled
            /\ ~(conns[c].ctx = "live" /\ conns[c].timer = "armed")

\* The names C10 lets Open pass on to os.Open: converted to the platform's
\* separator, absolute, and on a drive-letter platform a leading separator
\* followed by a drive that is not a network share.
Eligible(os, n) ==
    LET conv == FromSlash(os, n)
    IN  IF Separator(os) = "\\"
        THEN /\ Len(conv) >= 1
             /\ conv[1] = Separator(os)
             /\ ~RejectedVolume(VolumeName(os, Tail(conv)))
             /\ IsAbs(os, Tail(conv))
        ELSE IsAbs(os, conv)

\* C10: Open calls os.Open only for an eligible name, and for every other
\* name it returns an invalid-path error.  On a drive-letter platform the
\* code drops the first character unchecked (line 139).
C10_OpenOnlyAbsoluteLocal ==
    opened.kind # "uncalled" =>
        /\ opened.kind \in {"file", "oserror"} => Eligible(goos, name)
        /\ ~Eligible(goos, name) => opened.kind = "invalid"

\* C11 (as claimed), for requests without an escaped path: with a non-empty
\* pathPrefix a request whose path begins with it reaches the handler with the
\* prefix removed and any other request reaches the handler unmodified; with
\* an empty pathPrefix every path reaches the handler unchanged.
C11_UnprefixedPassedOn ==
    (served.kind # "unserved" /\ rawPath = <<>>) =>
        /\ served.kind = "handler"
        /\ served.path = IF pathPrefix # <<>> /\ HasPrefix(urlPath, pathPrefix)
                         THEN SubSeq(urlPath, Len(pathPrefix) + 1, Len(urlPath))
                         ELSE urlPath

\* C11 (amended): with a non-empty pathPrefix a request whose path (and whose
\* escaped path, when set) begins with the prefix reaches the handler with the
\* prefix removed from both; every other request is answered 404 and does not
\* reach the handler; with an empty pathPrefix every request reaches the
\* handler unchanged.
C11_StripOrNotFound ==
    served.kind # "unserved" =>
        IF pathPrefix = <<>>
        THEN served = [kind |-> "handler", path |-> urlPath, raw |-> rawPath]
        ELSE IF /\ HasPrefix(urlPath, pathPrefix)
                /\ rawPath = <<>> \/ HasPrefix(rawPath, pathPrefix)
             THEN /\ served.kind = "handler"
                  /\ pathPrefix \o served.path = urlPath
                  /\ rawPath # <<>> => pathPrefix \o served.raw = rawPath
                  /\ rawPath = <<>> => served.raw = <<>>
             ELSE served.kind = "404"

\* C11: a request without the configured prefix was answered 404.
C11_Witness ==
    /\ served.kind = "404"
    /\ pathPrefix = <<"/", "p">>
    /\ urlPath = <<"/", "/", "p">>
    /\ rawPath = <<>>

\* C12: serverError and the shutdown trigger are each written at most once,
\* serverError only by the serve goroutine, and the foreground reads
\* serverError only after the trigger has fired.
C12_WriteOnceReadAfterTrigger ==
    /\ [](stopDoneCount <= 1)
    /\ [](observed # "unread" => stopCtx = "done" /\ wakeCount = 1)
    /\ [][serverError' # serverError =>
            serverError = Nil /\ bg = "returned" /\ bg' = "stored"]_vars
    /\ [][observed' # observed => observed = "unread" /\ stopCtx = "done"]_vars

\* C12: the goroutine stored a serve error, fired the trigger with stop(), and
\* the foreground read the error after that.
C12_Witness ==
    /\ Returned
    /\ stopCause = "goroutine"
    /\ serverError = ErrListen
    /\ observed = ErrListen

\* The supervisor's lifecycle: 1 Starting, 2 Serving, 3 ShuttingDown (the
\* trigger fired or the serve loop returned), 4 Stopped.
Lifecycle ==
    IF fg = "done" THEN 4
    ELSE IF stopCtx = "done" \/ ServeLoopReturned THEN 3
    ELSE IF bg = "serving" THEN 2
    ELSE 1

\* C13: the lifecycle only moves forward through Starting, Serving,
\* ShuttingDown, Stopped, and ListenAndServe[TLS] is invoked at most once: the
\* goroutine never serves again after its serve call returned.
C13_LifecycleForward ==
    /\ [](serveCalls <= 1)
    /\ [](serveCalls = 1 <=> bg # "spawned")
    /\ [](serveCalls = 1 =>
            serveKind = IF tls THEN "ListenAndServeTLS" ELSE "ListenAndServe")
    /\ [][Lifecycle' >= Lifecycle]_vars
    /\ [][bg # "spawned" => bg' # "spawned"]_vars

\* C13: a run that served, was shut down on a signal and stopped.
C13_Witness ==
    /\ Lifecycle = 4
    /\ serveCalls = 1
    /\ listener = "closed"
    /\ bg = "exited"
    /\ stopCause = "signal"

\* C14: the expiry of the fetch timeout marks the derived context done and
\* nothing else: the invocation goes on, the connection stays as it is, and
\* the invocation ends only by the handler's own return or panic.
C14_DeadlineNeverInterrupts ==
    /\ [][\A c \in Conns :
            (conns[c].timer = "armed" /\ conns'[c].timer = "fired") =>
                /\ conns'[c].ctx = "done"
                /\ conns'[c].mw = conns[c].mw
                /\ conns'[c].st = conns[c].st]_vars
    /\ [](\A c \in Conns :
            conns[c].mw = "returned" /\ conns[c].hctx = "derived" =>
                conns[c].cancelCalled)

\* C14: the timeout elapsed and the handler, ignoring it, is still running on
\* a connection that is still open.
C14_Witness ==
    \E c \in Conns :
        /\ HandlerRunning(c)
        /\ InFlight(c)
        /\ conns[c].timer = "fired"
        /\ conns[c].reqCtx = "live"

\* C15: with shutdownTimeout == 0 server.Shutdown gets a context without a
\* deadline: it never returns DeadlineExceeded, and it returns only when no
\* request is in flight any more.
C15_UnboundedGrace ==
    /\ [](shutdownTimeout = 0 =>
            shutdownCtx = "none" /\ shutdownResult # DeadlineExceeded)
    /\ [](shutdownTimeout = 0 /\ Returned /\ shutdownCalls = 1 =>
            \A c \in Conns : ~InFlight(c))
    /\ [][(shutdownTimeout = 0 /\ fg = "shutdown" /\ fg' = "done") =>
            Quiescent(conns)]_vars

\* C15: after a signal server.Shutdown is waiting, without a deadline, for a
\* handler that is still running.
C15_Witness ==
    /\ shutdownTimeout = 0
    /\ fg = "shutdown"
    /\ stopCause = "signal"
    /\ \E c \in Conns : HandlerRunning(c)

\* C16: on a drive-letter platform Open returns an invalid-path error for
\* every name that has no leading separator, the empty name included.  The
\* code strips the first character without looking at it (line 139).
C16_LeadingSeparatorRequired ==
    (/\ opened.kind # "uncalled"
     /\ Separator(goos) = "\\"
     /\ ~(Len(name) >= 1 /\ FromSlash(goos, name)[1] = Separator(goos)))
        => opened.kind = "invalid"

C18_NoRaceOnServerError ==
    readOrder # "race"

\* C19: a signal leaves the contexts of in-flight requests as they are, and
\* request contexts derive from the command's context: a running request's
\* context becomes done only with the command's context, with the handler's
\* end or with the close of its connection, and its derived context also by
\* its own timeout.
C19_SignalLeavesRequestContexts ==
    /\ [][signals' # signals => conns' = conns]_vars
    /\ [][fg' # fg =>
            \A c \in Conns : HandlerRunning(c) => conns'[c] = conns[c]]_vars
    /\ [][\A c \in Conns :
            (~HandlerRunning(c) /\ conns'[c].mw = "running") =>
                conns'[c].reqCtx = cmdCtx]_vars
    /\ [][\A c \in Conns :
            (HandlerRunning(c) /\ conns[c].reqCtx = "live"
                               /\ conns'[c].reqCtx # "live") =>
                \/ cmdCtx # cmdCtx'
                \/ conns'[c].mw # "running"
                \/ UNCHANGED <<stopVars, fgVars, bgVars, srvVars>>]_vars
    /\ [][\A c \in Conns :
            (HandlerRunning(c) /\ conns[c].ctx = "live"
                               /\ conns'[c].ctx # "live") =>
                \/ conns'[c].timer = "fired"
                \/ conns'[c].reqCtx # conns[c].reqCtx
                \/ conns'[c].mw # "running"]_vars

\* C19: a signal was delivered and a request that was in flight still runs
\* with its context live.
C19_Witness ==
    /\ signals > 0
    /\ cmdCtx = "live"
    /\ inShutdown
    /\ \E c \in Conns : HandlerRunning(c) /\ conns[c].reqCtx = "live"

\* C20: once the trigger has fired the serve goroutine returns from its serve
\* call, stores the result and calls stop(); it is not left blocked after
\* runServerCmd returned through server.Shutdown.
C20_GoroutineTerminates ==
    /\ (stopCtx = "done") ~> (bg = "exited")
    /\ (Returned /\ shutdownCalls = 1) ~> (bg = "exited")
    /\ [](bg = "exited" => serverError = serveResult /\ serveResult # "none")

\* C20: the serve loop was stopped by server.Shutdown after a signal and the
\* goroutine ended.
C20_Witness ==
    /\ bg = "exited"
    /\ Returned
    /\ shutdownCalls = 1
    /\ serveResult = ErrServerClosed
    /\ listener = "closed"
    /\ stopCause = "signal"
====
